---- MODULE Spec2Model ----
(***************************************************************************)
(* Reminder scheduling core of rsl_siege_bot: the sent-state ledger        *)
(* (clan/reminder_sent_store.py), the calendar policy (clan/calendar.py),  *)
(* the two Reminder classes (clan/reminder.py and clan/clan_reminders.py)  *)
(* and the daemon loop on_clock / daily_callback_template / heartbeat      *)
(* (clan/clan_reminders.py).                                               *)
(*                                                                         *)
(* The specifications share the variables:                                 *)
(*   UnitSpec      one Reminder object and its store driven call by call,  *)
(*                 the way the unit tests drive them;                      *)
(*   Spec          the daemon process: on_clock running                    *)
(*                 daily_callback_template over the registered reminders,  *)
(*                 the heartbeat task, the shutdown signal, crash and      *)
(*                 restart;                                                *)
(*   LiveSpec      one run of the daemon without crash, under the          *)
(*                 scheduling of the event loop, with failing heartbeat    *)
(*                 posts;                                                  *)
(*   SendNowSpec   the daemon loop and one run of send_reminders_once in   *)
(*                 a process of its own;                                   *)
(*   CalendarSpec  a Calendar and its is_event_week;                       *)
(*   StoreSpec     one ReminderSentStore used by two threads;              *)
(*   InstanceSpec  two ReminderSentStore instances of one process.         *)
(***************************************************************************)
EXTENDS Integers, Sequences, FiniteSets, TLC

(***************************************************************************)
(* Values                                                                  *)
(***************************************************************************)

\* Python's None where a str is expected (ReminderSentStore.get -> Optional[str]).
None == <<>>

\* A function's return: a value, or a raised exception.
Ret(v) == [exc |-> "", val |-> v]

Raise(e) == [exc |-> e, val |-> FALSE]

\* An empty dict.
EmptyDict == [k \in {} |-> None]

\* d with key k removed (del d[k]).
DictDel(d, k) == [x \in (DOMAIN d) \ {k} |-> d[x]]

\* d with d[k] = v (insert or overwrite).
DictPut(d, k, v) == [x \in (DOMAIN d) \cup {k} |-> IF x = k THEN v ELSE d[x]]

(***************************************************************************)
(* Dates.  A datetime.date is modelled by its ISO calendar triple          *)
(* (ISO year, ISO week, weekday 0=Monday..6=Sunday), which determines it.  *)
(***************************************************************************)

\* First ISO week of the modelled window and the number of weeks in it.
FirstWeek == 25

NumWeeks == 2

ModelYear == 2025

Weeks == FirstWeek .. (FirstWeek + NumWeeks - 1)

Weekdays == 0 .. 6

Hours == 0 .. 23

Dates == [y : {ModelYear}, w : Weeks, wd : Weekdays]

\* The weekday of 1 January of year y, 0 = Sunday .. 6 = Saturday.
jan1(y) == (y + (y \div 4) - (y \div 100) + (y \div 400)) % 7

\* The number of ISO weeks of ISO year y: 53 when 1 January is a Thursday,
\* or a Wednesday in a leap year; 52 otherwise.
weeks_in_year(y) == IF jan1(y) = 4 \/ jan1(y - 1) = 3 THEN 53 ELSE 52

\* day + timedelta(weeks=1)
week_later(day) ==
    IF day.w < weeks_in_year(day.y) THEN [day EXCEPT !.w = @ + 1]
    ELSE [day EXCEPT !.y = @ + 1, !.w = 1]

\* date.weekday()
weekday(day) == day.wd

\* date.isocalendar().week
isoweek(day) == day.w

\* str(date): the ISO-8601 text of the date, one text per date.
str(day) == <<day.y, day.w, day.wd + 1>>

(***************************************************************************)
(* ReminderSentStore (clan/reminder_sent_store.py).  _data is the class    *)
(* level ledger {guild_id: {reminder_type: last_sent_day}}; the backing    *)
(* file is absent, unparsable, or holds the JSON text of such a dict.      *)
(***************************************************************************)

\* _load: the parsed file, {} when the file is missing or json.load fails.
store_load(f) == IF f.kind = "json" THEN f.d ELSE EmptyDict

\* _save: open(path, 'w') and json.dump(_data): the file holds the whole ledger.
store_save(d) == [kind |-> "json", d |-> d]

\* get: _data.get(guild_id, {}).get(reminder_type)
store_get(d, g, t) ==
    IF g \in DOMAIN d /\ t \in DOMAIN d[g] THEN d[g][t] ELSE None

\* set: create the guild's dict if missing, store the value, _save.
store_set(st, g, t, v) ==
    LET d0 == IF g \in DOMAIN st.data THEN st.data ELSE DictPut(st.data, g, EmptyDict)
        d1 == DictPut(d0, g, DictPut(d0[g], t, v))
    IN  [data |-> d1, file |-> store_save(d1)]

\* Faulty variant of clear: the guild's whole dict is deleted.
store_clear_guild(st, g, t) ==
    IF g \in DOMAIN st.data /\ t \in DOMAIN st.data[g]
    THEN [data |-> DictDel(st.data, g), file |-> store_save(DictDel(st.data, g))]
    ELSE st

\* clear: delete the entry, delete the guild's dict when it is left empty,
\* _save; nothing at all (no _save either) when the entry is absent.
store_clear(st, g, t) ==
    IF g \in DOMAIN st.data /\ t \in DOMAIN st.data[g]
    THEN LET inner == DictDel(st.data[g], t)
             d1 == IF DOMAIN inner = {} THEN DictDel(st.data, g)
                   ELSE DictPut(st.data, g, inner)
         IN  [data |-> d1, file |-> store_save(d1)]
    ELSE st

\* clear_all: _data = {}, _save.
store_clear_all(st) == [data |-> EmptyDict, file |-> store_save(EmptyDict)]

\* __init__, lines 22-23, and _load: open(path, 'r') is outside the try, so
\* a file that exists and cannot be opened raises; a missing file and a file
\* json.load cannot parse give {}.
load(f) == IF f.kind = "unreadable" THEN Raise("PermissionError")
           ELSE Ret(store_load(f))

\* Faulty variant of needs_save: only set persists.
needs_save_set_only(op, hit) == op = "set"

\* Whether an operation goes on to _save: set and clear_all always, clear
\* only when it found the entry.
needs_save(op, hit) == op \in {"set", "clear_all"} \/ hit

\* Faulty variant of lock_free: the lock is never waited for.
lock_ignored(l) == TRUE

\* `with self.__class__._lock` can be entered by a thread that does not hold
\* the lock already when no thread holds it.
lock_free(l) == l = 0

(***************************************************************************)
(* Calendar (clan/calendar.py).  cal.event_frequencies and cal.start_weeks *)
(* are dicts keyed by event.                                               *)
(***************************************************************************)

\* Faulty variant of is_event_week: a biweekly event is active only from its
\* start week on.
is_event_week_from_start(cal, event, date) ==
    LET frequency == IF event \in DOMAIN cal.event_frequencies
                     THEN cal.event_frequencies[event] ELSE "weekly"
    IN  IF frequency = "weekly" THEN Ret(TRUE)
        ELSE IF frequency = "biweekly"
        THEN IF event \notin DOMAIN cal.start_weeks
             THEN Raise("ValueError")
             ELSE Ret(isoweek(date) >= cal.start_weeks[event]
                      /\ (isoweek(date) - cal.start_weeks[event]) % 2 = 0)
        ELSE Raise("ValueError")

\* Faulty variant of is_event_week: the weeks are counted on from ModelYear
\* across the year boundaries.
is_event_week_renormalized(cal, event, date) ==
    LET frequency == IF event \in DOMAIN cal.event_frequencies
                     THEN cal.event_frequencies[event] ELSE "weekly"
        count == isoweek(date)
                 + (IF date.y > ModelYear THEN weeks_in_year(ModelYear) ELSE 0)
                 + (IF date.y > ModelYear + 1 THEN weeks_in_year(ModelYear + 1) ELSE 0)
    IN  IF frequency = "weekly" THEN Ret(TRUE)
        ELSE IF frequency = "biweekly"
        THEN IF event \notin DOMAIN cal.start_weeks
             THEN Raise("ValueError")
             ELSE Ret((count - cal.start_weeks[event]) % 2 = 0)
        ELSE Raise("ValueError")

is_event_week(cal, event, date) ==
    LET frequency == IF event \in DOMAIN cal.event_frequencies
                     THEN cal.event_frequencies[event] ELSE "weekly"
    IN  IF frequency = "weekly" THEN Ret(TRUE)
        ELSE IF frequency = "biweekly"
        THEN IF event \notin DOMAIN cal.start_weeks
             THEN Raise("ValueError")
             ELSE Ret((isoweek(date) - cal.start_weeks[event]) % 2 = 0)
        ELSE Raise("ValueError")

\* EVENT_NAME_MAP of clan/events.py.
EVENT_NAME_MAP == [n \in {"siege", "hydra", "chimera"} |->
    IF n = "siege" THEN "SIEGE" ELSE IF n = "hydra" THEN "HYDRA_CLASH"
    ELSE "CHIMERA_CLASH"]

\* str.lower() on the frequency values that occur in the configurations.
lower(v) == IF v = "Weekly" THEN "weekly"
            ELSE IF v = "BiWeekly" THEN "biweekly" ELSE v

\* The text of a start week is the sequence of its characters: a digit is
\* its value 0..9, any other character a number above 9.
isdigit(ws) == Len(ws) > 0 /\ \A i \in 1 .. Len(ws) : ws[i] \in 0 .. 9

RECURSIVE int(_)
int(ws) == IF Len(ws) = 0 THEN 0
           ELSE 10 * int(SubSeq(ws, 1, Len(ws) - 1)) + ws[Len(ws)]

\* The decimal text of n, over two and over four characters.
Digits2(n) == <<(n \div 10) % 10, n % 10>>

Digits4(n) == <<(n \div 1000) % 10, (n \div 100) % 10>> \o Digits2(n)

\* load_event_config, lines 78-88: "202450" (year and week) gives its last
\* two digits, other digit strings their value, anything else a ValueError.
week_num(ws) ==
    IF Len(ws) = 6 /\ isdigit(ws) THEN Ret(int(SubSeq(ws, 5, 6)))
    ELSE IF isdigit(ws) THEN Ret(int(ws))
    ELSE Raise("ValueError")

\* load_event_config: cfg.frequencies and cfg.start_weeks are the two
\* sections, option name -> text.  An unknown event name is a KeyError; the
\* frequency text is stored lowercased as it is; no entry is checked against
\* the other section.
load_event_config(cfg) ==
    LET known(sec) == {n \in DOMAIN sec : n \in DOMAIN EVENT_NAME_MAP}
        events(sec) == {EVENT_NAME_MAP[n] : n \in known(sec)}
        name(sec, e) == CHOOSE n \in known(sec) : EVENT_NAME_MAP[n] = e
    IN  IF known(cfg.frequencies) # DOMAIN cfg.frequencies THEN Raise("KeyError")
        ELSE IF known(cfg.start_weeks) # DOMAIN cfg.start_weeks THEN Raise("KeyError")
        ELSE IF \E n \in DOMAIN cfg.start_weeks : week_num(cfg.start_weeks[n]).exc # ""
        THEN Raise("ValueError")
        ELSE Ret(<<[e \in events(cfg.frequencies) |->
                       lower(cfg.frequencies[name(cfg.frequencies, e)])],
                   [e \in events(cfg.start_weeks) |->
                       week_num(cfg.start_weeks[name(cfg.start_weeks, e)]).val]>>)

\* Calendar(event_frequencies, start_weeks)
NewCalendar(event_frequencies, start_weeks) ==
    [event_frequencies |-> event_frequencies, start_weeks |-> start_weeks]

\* Calendar.from_config: load_event_config, then the constructor.
from_config(cfg) ==
    LET m == load_event_config(cfg)
    IN  IF m.exc # "" THEN m ELSE Ret(NewCalendar(m.val[1], m.val[2]))

(***************************************************************************)
(* Reminder of clan/reminder.py.  rem.utc_time is a set: {} for None, {h}  *)
(* for the hour h.  rem.send_func is "async" (a coroutine function),       *)
(* "sync" (another callable), "notcallable" (truthy, not callable) or      *)
(* "none".  The delivery capability itself is outside the core: a call of  *)
(* it either returns ("ok") or raises ("raise").                           *)
(***************************************************************************)

\* Faulty variant of reminder_number: the position is counted from 0.
reminder_number_zero_based(rem, day) ==
    IF \E i \in 1 .. Len(rem.reminder_days) : rem.reminder_days[i] = weekday(day)
    THEN (CHOOSE i \in 1 .. Len(rem.reminder_days) :
            /\ rem.reminder_days[i] = weekday(day)
            /\ \A j \in 1 .. (i - 1) : rem.reminder_days[j] # weekday(day)) - 1
    ELSE -1

\* reminder_number: 1-based index of the weekday in reminder_days, or -1.
reminder_number(rem, day) ==
    IF \E i \in 1 .. Len(rem.reminder_days) : rem.reminder_days[i] = weekday(day)
    THEN CHOOSE i \in 1 .. Len(rem.reminder_days) :
            /\ rem.reminder_days[i] = weekday(day)
            /\ \A j \in 1 .. (i - 1) : rem.reminder_days[j] # weekday(day)
    ELSE -1

\* Faulty variant of should_send: the hour gate excludes the gate hour itself.
should_send_strict_hour(rem, d, day, hour) ==
    LET week == IF rem.has_calendar THEN is_event_week(rem.calendar, rem.event, day)
                ELSE Ret(TRUE)
    IN  IF week.exc # "" THEN week
        ELSE IF ~week.val THEN Ret(FALSE)
        ELSE IF store_get(d, rem.guild_id, rem.event) = str(day) THEN Ret(FALSE)
        ELSE IF \A i \in 1 .. Len(rem.reminder_days) : rem.reminder_days[i] # weekday(day)
             THEN Ret(FALSE)
        ELSE IF \E h \in rem.utc_time : hour <= h THEN Ret(FALSE)
        ELSE Ret(TRUE)

\* Faulty variant of should_send: the already-sent test is missing.
should_send_no_ledger(rem, d, day, hour) ==
    LET week == IF rem.has_calendar THEN is_event_week(rem.calendar, rem.event, day)
                ELSE Ret(TRUE)
    IN  IF week.exc # "" THEN week
        ELSE IF ~week.val THEN Ret(FALSE)
        ELSE IF \A i \in 1 .. Len(rem.reminder_days) : rem.reminder_days[i] # weekday(day)
             THEN Ret(FALSE)
        ELSE IF \E h \in rem.utc_time : hour < h THEN Ret(FALSE)
        ELSE Ret(TRUE)

\* Faulty variant of should_send: any ledger entry counts as sent, whatever
\* its day.
should_send_any_entry(rem, d, day, hour) ==
    LET week == IF rem.has_calendar THEN is_event_week(rem.calendar, rem.event, day)
                ELSE Ret(TRUE)
    IN  IF week.exc # "" THEN week
        ELSE IF ~week.val THEN Ret(FALSE)
        ELSE IF store_get(d, rem.guild_id, rem.event) # None THEN Ret(FALSE)
        ELSE IF \A i \in 1 .. Len(rem.reminder_days) : rem.reminder_days[i] # weekday(day)
             THEN Ret(FALSE)
        ELSE IF \E h \in rem.utc_time : hour < h THEN Ret(FALSE)
        ELSE Ret(TRUE)

\* should_send(day) evaluated when the UTC clock reads `hour`.
should_send(rem, d, day, hour) ==
    LET week == IF rem.has_calendar THEN is_event_week(rem.calendar, rem.event, day)
                ELSE Ret(TRUE)
    IN  IF week.exc # "" THEN week
        ELSE IF ~week.val THEN Ret(FALSE)
        ELSE IF store_get(d, rem.guild_id, rem.event) = str(day) THEN Ret(FALSE)
        ELSE IF \A i \in 1 .. Len(rem.reminder_days) : rem.reminder_days[i] # weekday(day)
             THEN Ret(FALSE)
        ELSE IF \E h \in rem.utc_time : hour < h THEN Ret(FALSE)
        ELSE Ret(TRUE)

\* Faulty variant of send: the ledger write is missing.
send_no_write(rem, st, day, outcome) ==
    IF rem.send_func \in {"async", "sync"}
    THEN [res |-> IF outcome = "ok" THEN Ret(FALSE) ELSE Raise("DeliveryException"),
          delivered |-> <<rem.channel>>, st |-> st]
    ELSE [res |-> Raise("ValueError"), delivered |-> <<>>, st |-> st]

\* Faulty variant of send: the ledger is written before the delivery call.
send_write_first(rem, st, day, outcome) ==
    IF rem.send_func \in {"async", "sync"}
    THEN [res |-> IF outcome = "ok" THEN Ret(FALSE) ELSE Raise("DeliveryException"),
          delivered |-> <<rem.channel>>,
          st |-> store_set(st, rem.guild_id, rem.event, str(day))]
    ELSE [res |-> Raise("ValueError"), delivered |-> <<>>, st |-> st]

\* send(day): the delivery call, then the ledger write.  The result holds
\* the return, the delivery calls made (their channel argument) and the store.
send(rem, st, day, outcome) ==
    IF rem.send_func \in {"async", "sync"}
    THEN IF outcome = "ok"
         THEN [res |-> Ret(FALSE), delivered |-> <<rem.channel>>,
               st |-> store_set(st, rem.guild_id, rem.event, str(day))]
         ELSE [res |-> Raise("DeliveryException"), delivered |-> <<rem.channel>>,
               st |-> st]
    ELSE [res |-> Raise("ValueError"), delivered |-> <<>>, st |-> st]

\* clear(): sent_store.clear(guild_id, event_type.name)
clear(rem, st) == store_clear(st, rem.guild_id, rem.event)

(***************************************************************************)
(* Reminder of clan/clan_reminders.py, the class the daemon uses: one      *)
(* reminder_day, no calendar, the ledger test first.                       *)
(***************************************************************************)

\* Faulty variant of cr_should_send: the gate opens an hour late.
cr_should_send_strict_hour(rem, d, day, hour) ==
    IF store_get(d, rem.guild_id, rem.event) = str(day) THEN Ret(FALSE)
    ELSE IF weekday(day) # rem.reminder_day THEN Ret(FALSE)
    ELSE IF \E h \in rem.utc_time : hour <= h THEN Ret(FALSE)
    ELSE Ret(TRUE)

cr_should_send(rem, d, day, hour) ==
    IF store_get(d, rem.guild_id, rem.event) = str(day) THEN Ret(FALSE)
    ELSE IF weekday(day) # rem.reminder_day THEN Ret(FALSE)
    ELSE IF \E h \in rem.utc_time : hour < h THEN Ret(FALSE)
    ELSE Ret(TRUE)

\* A truthy send_func is called whatever it is: a non-callable is a TypeError.
cr_send(rem, st, day, outcome) ==
    IF rem.send_func = "none"
    THEN [res |-> Raise("ValueError"), delivered |-> <<>>, st |-> st]
    ELSE IF rem.send_func = "notcallable"
    THEN [res |-> Raise("TypeError"), delivered |-> <<>>, st |-> st]
    ELSE IF outcome = "ok"
    THEN [res |-> Ret(FALSE), delivered |-> <<rem.channel>>,
          st |-> store_set(st, rem.guild_id, rem.event, str(day))]
    ELSE [res |-> Raise("DeliveryException"), delivered |-> <<rem.channel>>,
          st |-> st]

cr_clear(rem, st) == store_clear(st, rem.guild_id, rem.event)

(***************************************************************************)
(* State                                                                   *)
(***************************************************************************)

VARIABLES
    data,       \* ReminderSentStore._data of the running process
    file,       \* the backing file: [kind: "absent" | "corrupt" | "json", d]
    reminders,  \* the Reminder objects, in registration order
    now_hour,   \* what datetime.now(timezone.utc).hour reads
    last,       \* UnitSpec: the last call made on the reminder and its result
    hist,       \* UnitSpec: delivery calls since the last successful send
    now_day,    \* Spec: what datetime.now().date() reads
    pc,         \* Spec: where the on_clock coroutine stands
    idx,        \* Spec: the reminder daily_callback_template is at
    today,      \* Spec: on_clock's `today` of the current tick
    stop,       \* Spec: stop_event.is_set()
    hb,         \* Spec: where the heartbeat task stands
    ticks,      \* Spec: ticks started so far
    dh,         \* Spec: what has happened so far (read by the properties only)
    config,     \* CalendarSpec: the event sections of guild_config.ini
    calendar,   \* CalendarSpec: what Calendar.from_config returned or raised
    query,      \* CalendarSpec: the last is_event_week call and its result
    pair,       \* CalendarSpec: or the last two calls, made for dates a week apart
    inst,       \* StoreSpec: what ReminderSentStore() returned or raised
    lock,       \* StoreSpec: the thread that holds ReminderSentStore._lock, or 0
    th,         \* StoreSpec: each thread's call on the store and where it stands
    cls_file_path,  \* InstanceSpec: ReminderSentStore._file_path, None until set
    other,      \* InstanceSpec: the file named by the second instance's arguments
    inst2,      \* InstanceSpec: what ReminderSentStore(app_name, filename) returned
    ih          \* InstanceSpec: the first instance built, the last call and the last set

storeVars == <<data, file>>

unitVars == <<last, hist>>

daemonVars == <<now_day, pc, idx, today, stop, hb, ticks, dh>>

calVars == <<config, calendar, query, pair>>

thVars == <<inst, lock, th>>

instVars == <<cls_file_path, other, inst2, ih>>

vars == <<data, file, reminders, now_hour, last, hist,
          now_day, pc, idx, today, stop, hb, ticks, dh, config, calendar, query, pair,
          inst, lock, th, cls_file_path, other, inst2, ih>>

\* The store as the pure operators take it.
Store == [data |-> data, file |-> file]

\* No configuration read, no Calendar built, no is_event_week call made.
NoConfig == [frequencies |-> EmptyDict, start_weeks |-> EmptyDict]

NotLoaded == [via |-> "none", res |-> Raise("unloaded")]

NoQuery == [event |-> "", day |-> None, res |-> Raise("none")]

NoPair == [event |-> "", day |-> None, first |-> Raise("none"), second |-> Raise("none")]

\* No ReminderSentStore built, no thread using one.
NotBuilt == Raise("unbuilt")

NoThreads == <<>>

\* ReminderSentStore._file_path is None.
NoPath == ""

\* No second file, no call made through an instance.
NoFile == [kind |-> "absent", d |-> EmptyDict]

NoInstanceCall == [first |-> 0, via |-> 0, op |-> "", g |-> "", e |-> "",
                   res |-> None, setvia |-> 0, setg |-> "", sete |-> ""]

(***************************************************************************)
(* UnitSpec: one Reminder and its store, driven call by call.              *)
(***************************************************************************)

Guild == "1234567890"

OtherGuild == "guild2"

\* Calendars: event_frequencies and start_weeks for the event SIEGE.
WeeklyCal == [event_frequencies |-> [e \in {"SIEGE"} |-> "weekly"],
              start_weeks |-> EmptyDict]

BiweeklyCal(w) == [event_frequencies |-> [e \in {"SIEGE"} |-> "biweekly"],
                   start_weeks |-> [e \in {"SIEGE"} |-> w]]

BiweeklyNoStartCal == [event_frequencies |-> [e \in {"SIEGE"} |-> "biweekly"],
                       start_weeks |-> EmptyDict]

UnsupportedCal == [event_frequencies |-> [e \in {"SIEGE"} |-> "monthly"],
                   start_weeks |-> EmptyDict]

UnregisteredCal == [event_frequencies |-> EmptyDict, start_weeks |-> EmptyDict]

UnitCalendars ==
    {WeeklyCal, BiweeklyNoStartCal, UnsupportedCal, UnregisteredCal}
    \cup {BiweeklyCal(w) : w \in {FirstWeek, FirstWeek + 1, FirstWeek + 5}}

\* Reminder(event_type, reminder_days, calendar, discord_client, send_func, utc_time)
NewReminder(days, utc, cal, sf) ==
    [cls |-> "reminder", event |-> "SIEGE", guild_id |-> Guild,
     reminder_days |-> days, utc_time |-> utc, send_func |-> sf,
     channel |-> "announcements", has_calendar |-> TRUE, calendar |-> cal]

\* clan_reminders.Reminder(event_name, reminder_day, discord_client, send_func, utc_time)
NewClanReminder(name, day, utc, sf) ==
    [cls |-> "clan_reminders", event |-> name, guild_id |-> Guild,
     reminder_day |-> day, utc_time |-> utc, send_func |-> sf,
     channel |-> "announcements"]

UnitReminders ==
    {NewReminder(<<1, 2>>, {}, c, "async") : c \in UnitCalendars}
    \cup {NewReminder(<<1, 2>>, {7}, WeeklyCal, "async")}
    \cup {NewReminder(<<1, 2>>, {}, WeeklyCal, sf) : sf \in {"sync", "none", "notcallable"}}
    \cup {NewReminder(d, {}, WeeklyCal, "async") : d \in {<<0, 3>>, <<3, 0, 3>>}}
    \cup {NewReminder(<<4, 5>>, {10}, WeeklyCal, "async")}
    \cup {NewClanReminder("hydra", 1, {7}, "async")}
    \cup {NewClanReminder("chimera", 6, {}, sf) : sf \in {"sync", "none", "notcallable"}}

\* The days a run passes to the reminder: both weeks of the window when the
\* reminder's event is biweekly, one week otherwise (the week is not read).
UnitDates(rem) ==
    IF rem.cls = "reminder" /\ rem.event \in DOMAIN rem.calendar.start_weeks
    THEN Dates ELSE {d \in Dates : d.w = FirstWeek}

\* The most delivery calls followed after one successful send.
MaxCalls == 2

NoCall == [op |-> "none", day |-> None, res |-> Ret(FALSE),
           delivered |-> <<>>, prev |-> None]

NoHist == [sent |-> None, calls |-> 0, resent |-> FALSE]

\* The clock is read only when an hour gate is configured; a run has one
\* clock reading, as under the tests' patched datetime.
ClockReads(rem) == IF rem.utc_time = {} THEN {0} ELSE Hours

UnitInit ==
    /\ file \in {[kind |-> k, d |-> EmptyDict] : k \in {"absent", "corrupt"}}
    /\ data = store_load(file)
    /\ \E r \in UnitReminders : reminders = <<r>> /\ now_hour \in ClockReads(r)
    /\ last = NoCall
    /\ hist = NoHist
    /\ now_day = None /\ pc = "none" /\ idx = 0 /\ today = None
    /\ stop = FALSE /\ hb = "off" /\ ticks = 0 /\ dh = None
    /\ config = NoConfig /\ calendar = NotLoaded /\ query = NoQuery /\ pair = NoPair
    /\ inst = NotBuilt /\ lock = 0
    /\ cls_file_path = NoPath /\ other = NoFile /\ inst2 = NotBuilt /\ ih = NoInstanceCall /\ th = NoThreads

\* The reminder under test, and the class-dispatched methods.
R == reminders[1]

DoShouldSend(rem, d, day, h) ==
    IF rem.cls = "reminder" THEN should_send(rem, d, day, h)
    ELSE cr_should_send(rem, d, day, h)

DoSend(rem, st, day, outcome) ==
    IF rem.cls = "reminder" THEN send(rem, st, day, outcome)
    ELSE cr_send(rem, st, day, outcome)

DoClear(rem, st) ==
    IF rem.cls = "reminder" THEN clear(rem, st) ELSE cr_clear(rem, st)

\* reminder.should_send(day)
U_should_send ==
    \E day \in UnitDates(R) :
        /\ last' = [op |-> "should_send", day |-> day,
                    res |-> DoShouldSend(R, data, day, now_hour), delivered |-> <<>>,
                    prev |-> store_get(data, R.guild_id, R.event)]
        /\ UNCHANGED <<data, file, reminders, now_hour, hist, daemonVars, calVars, thVars, instVars>>

\* await reminder.send(day), the delivery capability returning or raising.
U_send ==
    \E day \in UnitDates(R), outcome \in {"ok", "raise"} :
        LET s == DoSend(R, Store, day, outcome)
        IN  /\ hist.calls < MaxCalls
            /\ data' = s.st.data
            /\ file' = s.st.file
            /\ last' = [op |-> "send", day |-> day, res |-> s.res,
                        delivered |-> s.delivered,
                        prev |-> store_get(data, R.guild_id, R.event)]
            /\ hist' = IF s.res.exc = ""
                       THEN [sent |-> str(day), calls |-> Len(s.delivered),
                             resent |-> FALSE]
                       ELSE [hist EXCEPT !.calls = @ + Len(s.delivered),
                                         !.resent = TRUE]
            /\ UNCHANGED <<reminders, now_hour, daemonVars, calVars, thVars, instVars>>

\* reminder.clear()
U_clear ==
    LET st == DoClear(R, Store)
    IN  /\ data' = st.data
        /\ file' = st.file
        /\ last' = [NoCall EXCEPT !.op = "clear"]
        /\ hist' = NoHist
        /\ UNCHANGED <<reminders, now_hour, daemonVars, calVars, thVars, instVars>>

\* reminder.reminder_number(day)  (clan/reminder.py only)
U_reminder_number ==
    \E day \in UnitDates(R) :
        /\ R.cls = "reminder"
        /\ last' = [op |-> "reminder_number", day |-> day,
                    res |-> Ret(reminder_number(R, day)), delivered |-> <<>>,
                    prev |-> store_get(data, R.guild_id, R.event)]
        /\ UNCHANGED <<data, file, reminders, now_hour, hist, daemonVars, calVars, thVars, instVars>>

\* store.set / store.clear on another guild's entry, and store.clear_all().
U_store_set ==
    \E day \in {d \in Dates : d.w = FirstWeek /\ d.wd = 0} :
        LET st == store_set(Store, OtherGuild, R.event, str(day))
        IN  /\ data' = st.data
            /\ file' = st.file
            /\ last' = [NoCall EXCEPT !.op = "store_set"]
            /\ UNCHANGED <<reminders, now_hour, hist, daemonVars, calVars, thVars, instVars>>

U_store_clear ==
    LET st == store_clear(Store, OtherGuild, R.event)
    IN  /\ data' = st.data
        /\ file' = st.file
        /\ last' = [NoCall EXCEPT !.op = "store_clear"]
        /\ UNCHANGED <<reminders, now_hour, hist, daemonVars, calVars, thVars, instVars>>

U_store_clear_all ==
    LET st == store_clear_all(Store)
    IN  /\ data' = st.data
        /\ file' = st.file
        /\ last' = [NoCall EXCEPT !.op = "clear_all"]
        /\ hist' = NoHist
        /\ UNCHANGED <<reminders, now_hour, daemonVars, calVars, thVars, instVars>>

UnitNext ==
    \/ U_should_send
    \/ U_send
    \/ U_clear
    \/ U_reminder_number
    \/ U_store_set
    \/ U_store_clear
    \/ U_store_clear_all

UnitSpec == UnitInit /\ [][UnitNext]_vars

(***************************************************************************)
(* Spec: the daemon process.  run_reminders_loop builds the reminders,     *)
(* on_clock runs daily_callback_template once per loop round and sleeps    *)
(* up to 3600 s between rounds; the heartbeat task runs beside it.  The    *)
(* coroutines are cut at their await points.                               *)
(***************************************************************************)

\* Bounds of a run: loop rounds started, and crashes of the process.
MaxTicks == 3

MaxCrashes == 1

\* What the guild configuration says of the events' cadence: Hydra every other
\* week from the second week of the window on, Chimera every week.
DaemonCalendar ==
    [event_frequencies |-> [e \in {"HYDRA_CLASH", "CHIMERA_CLASH"} |->
                               IF e = "HYDRA_CLASH" THEN "biweekly" ELSE "weekly"],
     start_weeks |-> [e \in {"HYDRA_CLASH"} |-> FirstWeek + 1]]

\* The reminder lists handed to daily_callback_template, in registration
\* order.  initialize_reminders binds the coroutine send_<name>_reminder; a
\* Reminder built directly may have no send_func.
DaemonReminderLists ==
    {<<NewClanReminder("hydra", d1, {7}, sf), NewClanReminder("chimera", d2, {}, "async")>> :
        d1 \in {1, 6}, d2 \in {1, 6}, sf \in {"async", "none"}}

\* The hours at which a run may start.
StartHours == {6, 22}

RIdx == 1 .. Len(reminders)

NoDaemonHist ==
    [calls |-> [i \in 1 .. 2 |-> 0],      \* delivery calls made for (reminder, now_day)
     okday |-> [i \in 1 .. 2 |-> None],   \* str(day) of the last send that returned
     restarted |-> {},                    \* reminders whose okday predates a restart
     redelivered |-> {},                  \* ... and that were delivered again for okday
     failed |-> FALSE,                    \* a delivery call has raised
     crashes |-> 0,                       \* crashes of the process
     exit |-> "",                         \* why the loop was left: "stop" (on_clock
                                          \* returns) | "cancel" (CancelledError
                                          \* leaves on_clock)
     sig |-> "",                          \* where the loop was when the signal came
     sighb |-> "",                        \* ... and where the heartbeat task was
     evald |-> {},                        \* reminders evaluated in the current tick
     cleared |-> FALSE,                   \* the current tick cleared the reminders
     raised |-> 0,                        \* the reminder whose send raised in this tick
     sendnow |-> None,                    \* str(day) of the run of send_reminders_once
     sentnow |-> {},                      \* the reminders it delivered and recorded
     callsat |-> [i \in 1 .. 2 |-> 0],    \* calls as it stood when that run ended
     hbfail |-> 0,                        \* 1: a heartbeat post has raised,
                                          \* 2: ... and the task has posted again
     hbtick |-> FALSE,                    \* a tick has started since that post raised
     heartbeat |-> FALSE]                 \* a heartbeat_client was given

Init ==
    /\ file = [kind |-> "absent", d |-> EmptyDict]
    /\ data = store_load(file)
    /\ reminders \in DaemonReminderLists
    /\ now_day \in {d \in Dates : d.w = FirstWeek}
    /\ now_hour \in StartHours
    /\ pc = "test" /\ idx = 0 /\ today = now_day
    /\ stop = FALSE /\ ticks = 0
    /\ hb \in {"off", "new"}
    /\ dh = [NoDaemonHist EXCEPT !.heartbeat = (hb = "new")]
    /\ last = NoCall /\ hist = NoHist
    /\ config = NoConfig /\ calendar = NotLoaded /\ query = NoQuery /\ pair = NoPair
    /\ inst = NotBuilt /\ lock = 0
    /\ cls_file_path = NoPath /\ other = NoFile /\ inst2 = NotBuilt /\ ih = NoInstanceCall /\ th = NoThreads

\* The day after d.
NextDay(d) ==
    IF d.wd < 6 THEN [d EXCEPT !.wd = @ + 1] ELSE [d EXCEPT !.w = @ + 1, !.wd = 0]

\* The clock one hour (3600 s) later.
HourLater == IF now_hour < 23 THEN [day |-> now_day, hour |-> now_hour + 1]
             ELSE [day |-> NextDay(now_day), hour |-> 0]

\* The per-day counts start again when the date changes.
HistAt(h, day) ==
    IF day = now_day THEN h ELSE [h EXCEPT !.calls = [i \in 1 .. 2 |-> 0]]

\* Faulty variant of clear_all_reminders: no reminder is cleared.
clear_no_reminders(rems, i, st) == st

\* daily_callback_template, lines 184-186: on a Sunday, clear() on every reminder.
RECURSIVE clear_all_reminders(_, _, _)
clear_all_reminders(rems, i, st) ==
    IF i > Len(rems) THEN st
    ELSE clear_all_reminders(rems, i + 1, cr_clear(rems[i], st))

\* Faulty variant of on_exception: every exception of the callback is logged
\* and the loop goes on.
on_exception_swallows(kind) == "sleep"

\* Faulty variant of on_exception: an exception of the callback ends the loop.
on_exception_propagates(kind) == "finally"

\* on_clock, lines 274-278: where the loop goes when the callback raised:
\* CancelledError is re-raised (the finally block runs), any other Exception
\* is logged and the loop goes on to its sleep.
on_exception(kind) == IF kind = "CancelledError" THEN "finally" ELSE "sleep"

\* Where daily_callback_template goes after reminder i: the next reminder, or
\* back to on_clock, which sleeps.
AfterReminder(i) == IF i < Len(reminders) THEN "eval" ELSE "sleep"

\* Faulty variant of loop_test: the loop goes round whatever stop_event says.
loop_test_always(s) == TRUE

\* on_clock, line 261: while not stop_event.is_set().
loop_test(s) == ~s

\* on_clock, lines 261-266: the loop test passes, today is read and the
\* callback starts: on a Sunday every reminder is cleared.
TickStart ==
    /\ pc = "test" /\ loop_test(stop) /\ ticks < MaxTicks
    /\ LET st == IF weekday(now_day) = 6
                 THEN clear_all_reminders(reminders, 1, Store) ELSE Store
       IN  /\ data' = st.data
           /\ file' = st.file
    /\ today' = now_day
    /\ pc' = IF Len(reminders) = 0 THEN "sleep" ELSE "eval"
    /\ idx' = 1
    /\ ticks' = ticks + 1
    /\ dh' = [dh EXCEPT !.evald = {}, !.raised = 0,
                        !.cleared = (weekday(now_day) = 6),
                        !.hbtick = (dh.hbfail > 0)]
    /\ UNCHANGED <<reminders, now_hour, now_day, stop, hb, unitVars, calVars, thVars, instVars>>

\* daily_callback_template, lines 187-189: should_send of reminder idx and,
\* when it is True, send up to the delivery call.  A reminder without
\* send_func raises in send, which ends the callback.
Evaluate ==
    /\ pc = "eval"
    /\ LET r == reminders[idx]
           due == cr_should_send(r, data, today, now_hour)
       IN  IF due # Ret(TRUE)
           THEN /\ pc' = AfterReminder(idx)
                /\ idx' = idx + 1
                /\ dh' = [dh EXCEPT !.evald = @ \cup {idx}]
           ELSE IF r.send_func \in {"async", "sync"}
           THEN /\ pc' = "deliver"
                /\ idx' = idx
                /\ dh' = [dh EXCEPT !.evald = @ \cup {idx},
                                    !.calls[idx] = @ + 1,
                                    !.redelivered =
                                        IF idx \in dh.restarted /\ dh.okday[idx] = str(today)
                                        THEN @ \cup {idx} ELSE @]
           ELSE /\ pc' = on_exception(cr_send(r, Store, today, "ok").res.exc)
                /\ idx' = idx
                /\ dh' = [dh EXCEPT !.evald = @ \cup {idx}, !.raised = idx]
    /\ UNCHANGED <<data, file, reminders, now_hour, now_day, today, stop, hb,
                   ticks, unitVars, calVars, thVars, instVars>>

\* The delivery call returns or raises: send writes the ledger and the
\* callback goes on, or the exception leaves the callback.
DeliveryReturn ==
    /\ pc = "deliver"
    /\ \E outcome \in {"ok", "raise"} :
        LET s == cr_send(reminders[idx], Store, today, outcome)
        IN  /\ data' = s.st.data
            /\ file' = s.st.file
            /\ IF s.res.exc = ""
               THEN /\ pc' = AfterReminder(idx)
                    /\ idx' = idx + 1
                    /\ dh' = [dh EXCEPT !.okday[idx] = str(today),
                                        !.restarted = @ \ {idx},
                                        !.redelivered = @ \ {idx}]
               ELSE /\ pc' = on_exception(s.res.exc)
                    /\ idx' = idx
                    /\ dh' = [dh EXCEPT !.failed = TRUE, !.raised = idx]
    /\ UNCHANGED <<reminders, now_hour, now_day, today, stop, hb, ticks, unitVars, calVars, thVars, instVars>>

\* The task running on_clock is cancelled while it awaits the callback or
\* the sleep: CancelledError is re-raised and the finally block runs.
TaskCancel ==
    /\ pc \in {"deliver", "sleep"}
    /\ pc' = on_exception("CancelledError")
    /\ dh' = [dh EXCEPT !.exit = "cancel"]
    /\ UNCHANGED <<data, file, reminders, now_hour, now_day, idx, today, stop,
                   hb, ticks, unitVars, calVars, thVars, instVars>>

\* Faulty variant of woken: a wait on stop_event ends only by its timeout.
woken_never(s) == FALSE

\* asyncio.wait_for(stop_event.wait(), timeout): the wait returns at once
\* when stop_event is set, and by its timeout otherwise.
woken(s) == s

\* on_clock, lines 281-285: the wait times out after an hour and the loop
\* goes round.
SleepTimeout ==
    /\ pc = "sleep" /\ ~woken(stop)
    /\ HourLater.day \in Dates
    /\ now_day' = HourLater.day
    /\ now_hour' = HourLater.hour
    /\ pc' = "test"
    /\ dh' = HistAt(dh, HourLater.day)
    /\ UNCHANGED <<data, file, reminders, idx, today, stop, hb, ticks, unitVars, calVars, thVars, instVars>>

\* The wait returns because stop_event is set; the loop test fails.
SleepWake ==
    /\ pc = "sleep" /\ woken(stop)
    /\ pc' = "finally"
    /\ dh' = [dh EXCEPT !.exit = "stop"]
    /\ UNCHANGED <<data, file, reminders, now_hour, now_day, idx, today, stop,
                   hb, ticks, unitVars, calVars, thVars, instVars>>

\* The loop test fails at the loop head (the signal came before it).
LoopExit ==
    /\ pc = "test" /\ ~loop_test(stop)
    /\ pc' = "finally"
    /\ dh' = [dh EXCEPT !.exit = "stop"]
    /\ UNCHANGED <<data, file, reminders, now_hour, now_day, idx, today, stop,
                   hb, ticks, unitVars, calVars, thVars, instVars>>

\* _request_stop: SIGTERM, SIGINT or SIGHUP sets stop_event.
Signal ==
    /\ pc \notin {"down", "stopped"} /\ ~stop
    /\ stop' = TRUE
    /\ dh' = [dh EXCEPT !.sig = pc, !.sighb = hb]
    /\ UNCHANGED <<data, file, reminders, now_hour, now_day, pc, idx, today,
                   hb, ticks, unitVars, calVars, thVars, instVars>>

\* on_clock, lines 286-290: the finally block cancels the heartbeat task.
Finally ==
    /\ pc = "finally"
    /\ IF hb = "off" THEN pc' = "stopped" /\ hb' = hb
       ELSE /\ pc' = "drain"
            /\ hb' = IF hb \in {"done", "cancelled"} THEN hb ELSE "cancelling"
    /\ UNCHANGED <<data, file, reminders, now_hour, now_day, idx, today, stop,
                   ticks, dh, unitVars, calVars, thVars, instVars>>

\* Faulty variant of task_done: on_clock does not wait for the heartbeat task.
task_done_always(h) == TRUE

\* A task is over when its coroutine returned or the cancellation reached it.
task_done(h) == h \in {"done", "cancelled"}

\* on_clock, lines 291-294: await heartbeat_task returns once the task is over.
Drained ==
    /\ pc = "drain" /\ task_done(hb)
    /\ pc' = "stopped"
    /\ UNCHANGED <<data, file, reminders, now_hour, now_day, idx, today, stop,
                   hb, ticks, dh, unitVars, calVars, thVars, instVars>>

\* heartbeat, line 202: the task starts and tests stop_event.
HbStart ==
    /\ hb = "new"
    /\ hb' = IF stop THEN "done" ELSE "post"
    /\ UNCHANGED <<data, file, reminders, now_hour, now_day, pc, idx, today,
                   stop, ticks, dh, unitVars, calVars, thVars, instVars>>

\* Faulty variant of hb_on_exception: the exception of a post ends the task.
hb_on_exception_propagates(kind) == "done"

\* heartbeat, lines 203-210: where the task goes when post_message raised:
\* an Exception is logged and the task goes on to its wait; CancelledError
\* is not an Exception and ends the task.
hb_on_exception(kind) == IF kind = "CancelledError" THEN "cancelled" ELSE "sleep"

\* heartbeat, lines 203-212: post_message is over (an exception is logged);
\* the task waits up to 60 s on stop_event.
HbPostReturn ==
    /\ hb = "post"
    /\ hb' = "sleep"
    /\ UNCHANGED <<data, file, reminders, now_hour, now_day, pc, idx, today,
                   stop, ticks, dh, unitVars, calVars, thVars, instVars>>

\* heartbeat, lines 203-210: post_message raises, and the run keeps a record
\* of it.  This step is followed in LiveSpec.
HbPostRaise ==
    /\ hb = "post"
    /\ hb' = hb_on_exception("Exception")
    /\ dh' = [dh EXCEPT !.hbfail = 1, !.hbtick = FALSE]
    /\ UNCHANGED <<data, file, reminders, now_hour, now_day, pc, idx, today,
                   stop, ticks, unitVars, calVars, thVars, instVars>>

\* heartbeat, lines 211-214: the wait times out, the loop goes round and posts.
HbSleepTimeout ==
    /\ hb = "sleep" /\ ~woken(stop)
    /\ hb' = "post"
    /\ dh' = [dh EXCEPT !.hbfail = IF @ = 1 THEN 2 ELSE @]
    /\ UNCHANGED <<data, file, reminders, now_hour, now_day, pc, idx, today,
                   stop, ticks, unitVars, calVars, thVars, instVars>>

\* The wait returns because stop_event is set: the loop test fails.
HbSleepWake ==
    /\ hb = "sleep" /\ woken(stop)
    /\ hb' = "done"
    /\ UNCHANGED <<data, file, reminders, now_hour, now_day, pc, idx, today,
                   stop, ticks, dh, unitVars, calVars, thVars, instVars>>

\* heartbeat, lines 216-217: CancelledError at the task's await; it exits.
HbCancelled ==
    /\ hb = "cancelling"
    /\ hb' = hb_on_exception("CancelledError")
    /\ UNCHANGED <<data, file, reminders, now_hour, now_day, pc, idx, today,
                   stop, ticks, dh, unitVars, calVars, thVars, instVars>>

\* The process dies: its memory (the ledger in _data, the tasks) is lost.
Crash ==
    /\ pc \notin {"down", "stopped"} /\ dh.crashes < MaxCrashes
    /\ pc' = "down" /\ hb' = "off" /\ stop' = FALSE /\ idx' = 0
    /\ data' = EmptyDict
    /\ dh' = [dh EXCEPT !.crashes = @ + 1, !.evald = {}, !.raised = 0,
                        !.cleared = FALSE, !.exit = "", !.sig = "", !.sighb = "",
                        !.hbfail = 0, !.hbtick = FALSE]
    /\ UNCHANGED <<file, reminders, now_hour, now_day, today, ticks, unitVars, calVars, thVars, instVars>>

\* The process dies inside _save, between open(path, 'w') and the end of
\* json.dump: the file is left truncated.
CrashInSave ==
    /\ pc = "deliver" /\ dh.crashes < MaxCrashes
    /\ pc' = "down" /\ hb' = "off" /\ stop' = FALSE /\ idx' = 0
    /\ data' = EmptyDict
    /\ file' = [kind |-> "corrupt", d |-> EmptyDict]
    /\ dh' = [dh EXCEPT !.crashes = @ + 1, !.evald = {}, !.raised = 0,
                        !.cleared = FALSE, !.exit = "", !.sig = "", !.sighb = "",
                        !.hbfail = 0, !.hbtick = FALSE]
    /\ UNCHANGED <<reminders, now_hour, now_day, today, ticks, unitVars, calVars, thVars, instVars>>

\* The daemon is started again, at once or an hour later: the reminders are
\* built anew and the first ReminderSentStore() loads the file.
Restart ==
    /\ pc = "down"
    /\ \E t \in {[day |-> now_day, hour |-> now_hour], HourLater} :
        /\ t.day \in Dates
        /\ now_day' = t.day
        /\ now_hour' = t.hour
        /\ dh' = [HistAt(dh, t.day) EXCEPT
                    !.restarted = {i \in RIdx : dh.okday[i] # None}]
    /\ data' = store_load(file)
    /\ pc' = "test"
    /\ hb' = IF dh.heartbeat THEN "new" ELSE "off"
    /\ UNCHANGED <<file, reminders, idx, today, stop, ticks, unitVars, calVars, thVars, instVars>>

Next ==
    \/ TickStart
    \/ Evaluate
    \/ DeliveryReturn
    \/ TaskCancel
    \/ SleepTimeout
    \/ SleepWake
    \/ LoopExit
    \/ Signal
    \/ Finally
    \/ Drained
    \/ HbStart
    \/ HbPostReturn
    \/ HbSleepTimeout
    \/ HbSleepWake
    \/ HbCancelled
    \/ Crash
    \/ CrashInSave
    \/ Restart

Spec == Init /\ [][Next]_vars

(***************************************************************************)
(* LiveSpec: one run of the daemon that does not crash, with the           *)
(* scheduling of the asyncio event loop: a task that is ready to run is    *)
(* run.  A started delivery call returns or raises.  The event loop owes   *)
(* nothing to a task that waits: no timeout, signal, cancellation or       *)
(* answer to a heartbeat post is ever due.                                 *)
(***************************************************************************)

\* The steps of the task running on_clock that wait for nothing but a
\* started delivery call or the end of the heartbeat task.
MainStep ==
    \/ TickStart
    \/ Evaluate
    \/ DeliveryReturn
    \/ SleepWake
    \/ LoopExit
    \/ Finally
    \/ Drained

\* The steps of the heartbeat task that wait for nothing.
HbStep ==
    \/ HbStart
    \/ HbSleepWake
    \/ HbCancelled

LiveNext ==
    \/ MainStep
    \/ HbStep
    \/ TaskCancel
    \/ SleepTimeout
    \/ Signal
    \/ HbPostReturn
    \/ HbPostRaise
    \/ HbSleepTimeout

\* The runs of LiveSpec start on a Tuesday or on a Sunday.
LiveInit == Init /\ weekday(now_day) \in {1, 6}

LiveSpec == LiveInit /\ [][LiveNext]_vars /\ WF_vars(MainStep) /\ WF_vars(HbStep)

(***************************************************************************)
(* SendNowSpec: the daemon loop, and beside it one run of the command      *)
(* send_reminders, a process of its own with its own ReminderSentStore     *)
(* class and the same backing file.                                        *)
(***************************************************************************)

\* send_reminders_once, lines 49-50: send(today) on every reminder in
\* turn, without should_send; an exception of a send ends the run.
RECURSIVE send_reminders_once(_, _, _, _)
send_reminders_once(rems, i, st, day) ==
    IF i > Len(rems) THEN [st |-> st, sent |-> {}]
    ELSE LET s == cr_send(rems[i], st, day, "ok")
         IN  IF s.res.exc # "" THEN [st |-> s.st, sent |-> {}]
             ELSE LET rest == send_reminders_once(rems, i + 1, s.st, day)
                  IN  [st |-> rest.st, sent |-> rest.sent \cup {i}]

\* One run of send_reminders while the daemon runs: the first
\* ReminderSentStore() of the new process loads the file, every send
\* delivers and rewrites the file from that ledger.  The ledger of the
\* daemon process is another object and stays as it is.
SendNow ==
    /\ pc \in {"test", "eval", "deliver", "sleep"} /\ dh.sendnow = None
    /\ LET run == send_reminders_once(reminders, 1,
                       [data |-> store_load(file), file |-> file], now_day)
       IN  /\ file' = run.st.file
           /\ dh' = [dh EXCEPT !.sendnow = str(now_day), !.sentnow = run.sent,
                               !.callsat = dh.calls]
    /\ UNCHANGED <<data, reminders, now_hour, now_day, pc, idx, today, stop, hb,
                   ticks, unitVars, calVars, thVars, instVars>>

\* The runs of SendNowSpec have no heartbeat task.
SendNowInit == Init /\ hb = "off"

SendNowNext ==
    \/ TickStart
    \/ Evaluate
    \/ DeliveryReturn
    \/ SleepTimeout
    \/ SendNow

SendNowSpec == SendNowInit /\ [][SendNowNext]_vars

(***************************************************************************)
(* CalendarSpec: a Calendar built from the configuration file or directly, *)
(* and asked is_event_week.                                                *)
(***************************************************************************)

\* Texts of a start week: year and week, the week alone, and not a number.
StartWeekTexts ==
    {Digits4(ModelYear) \o Digits2(FirstWeek), Digits2(FirstWeek + 1),
     Digits2(FirstWeek + 5), <<32, 2, 6>>}

\* The event sections of the configuration file: at most one option each.
CalendarConfigs ==
    [frequencies : {EmptyDict} \cup {[n \in {"siege"} |-> v] :
                        v \in {"weekly", "Weekly", "biweekly", "BiWeekly", "monthly"}}
                    \cup {[n \in {"arena"} |-> "weekly"]},
     start_weeks : {EmptyDict} \cup {[n \in {"siege"} |-> ws] : ws \in StartWeekTexts}
                    \cup {[n \in {"arena"} |-> Digits2(FirstWeek)]}]

CalendarEvents == {"SIEGE", "HYDRA_CLASH"}

CalendarInit ==
    /\ config \in CalendarConfigs
    /\ calendar = NotLoaded
    /\ query = NoQuery /\ pair = NoPair
    /\ file = [kind |-> "absent", d |-> EmptyDict]
    /\ data = EmptyDict
    /\ reminders = <<>> /\ now_hour = 0
    /\ last = NoCall /\ hist = NoHist
    /\ now_day = None /\ pc = "none" /\ idx = 0 /\ today = None
    /\ stop = FALSE /\ hb = "off" /\ ticks = 0 /\ dh = None
    /\ inst = NotBuilt /\ lock = 0
    /\ cls_file_path = NoPath /\ other = NoFile /\ inst2 = NotBuilt /\ ih = NoInstanceCall /\ th = NoThreads

\* Calendar.from_config(config_path)
C_from_config ==
    /\ calendar = NotLoaded
    /\ calendar' = [via |-> "from_config", res |-> from_config(config)]
    /\ UNCHANGED <<config, query, pair, storeVars, reminders, now_hour, unitVars, daemonVars, thVars, instVars>>

\* Calendar(event_frequencies, start_weeks), built without the file.
C_Calendar ==
    /\ calendar = NotLoaded
    /\ \E c \in UnitCalendars :
          calendar' = [via |-> "init",
                       res |-> Ret(NewCalendar(c.event_frequencies, c.start_weeks))]
    /\ UNCHANGED <<config, query, pair, storeVars, reminders, now_hour, unitVars, daemonVars, thVars, instVars>>

\* calendar.is_event_week(event, day)
C_is_event_week ==
    /\ calendar.res.exc = ""
    /\ \E event \in CalendarEvents, day \in Dates :
          query' = [event |-> event, day |-> day,
                    res |-> is_event_week(calendar.res.val, event, day)]
    /\ pair' = NoPair
    /\ UNCHANGED <<config, calendar, storeVars, reminders, now_hour, unitVars, daemonVars, thVars, instVars>>

\* The dates of the last ISO week of ModelYear and of the year after it: the
\* week after them is week 1 of the next ISO year.
YearEndDates ==
    {[y |-> yy, w |-> weeks_in_year(yy), wd |-> d] :
        yy \in {ModelYear, ModelYear + 1}, d \in {0, 6}}

\* calendar.is_event_week(event, day) and
\* calendar.is_event_week(event, day + timedelta(weeks=1))
C_consecutive_weeks ==
    /\ calendar.res.exc = ""
    /\ \E event \in CalendarEvents, day \in Dates \cup YearEndDates :
          pair' = [event |-> event, day |-> day,
                   first |-> is_event_week(calendar.res.val, event, day),
                   second |-> is_event_week(calendar.res.val, event, week_later(day))]
    /\ query' = NoQuery
    /\ UNCHANGED <<config, calendar, storeVars, reminders, now_hour, unitVars,
                   daemonVars, thVars, instVars>>

CalendarNext ==
    \/ C_from_config
    \/ C_Calendar
    \/ C_is_event_week
    \/ C_consecutive_weeks

CalendarSpec == CalendarInit /\ [][CalendarNext]_vars

(***************************************************************************)
(* StoreSpec: one ReminderSentStore used by two threads.  Each method runs *)
(* under _lock; it is cut where the interpreter may switch threads: before *)
(* the lock, between the membership test and the assignment, and around    *)
(* the two halves of _save (open(path, 'w') truncates, json.dump writes).  *)
(***************************************************************************)

Threads == {1, 2}

\* The most calls one thread makes on the store.
MaxOps == 2

StoreKeys == {<<Guild, "hydra">>, <<Guild, "chimera">>, <<OtherGuild, "chimera">>}

\* The value thread t writes: the text of a day of its own.
StoreValue(t) == str([y |-> ModelYear, w |-> FirstWeek, wd |-> t])

\* The reminder whose clear() a thread may call.
StoreReminder == NewClanReminder("hydra", 1, {}, "async")

Idle == [pc |-> "idle", op |-> "none", g |-> "", e |-> "", v |-> None,
         flag |-> FALSE, hit |-> FALSE, blocked |-> FALSE, exc |-> "", n |-> 0]

\* The calls thread t may make: set, clear, clear_all, Reminder.clear.
StoreCalls(t) ==
    {[op |-> "set", g |-> k[1], e |-> k[2], v |-> StoreValue(t)] : k \in StoreKeys}
    \cup {[op |-> "clear", g |-> k[1], e |-> k[2], v |-> None] : k \in StoreKeys}
    \cup {[op |-> "clear_all", g |-> "", e |-> "", v |-> None]}
    \cup {[op |-> "reminder_clear", g |-> StoreReminder.guild_id,
           e |-> StoreReminder.event, v |-> None]}

StoreFiles ==
    {[kind |-> k, d |-> EmptyDict] : k \in {"absent", "corrupt", "unreadable"}}

StoreInit ==
    /\ file \in StoreFiles
    /\ data = EmptyDict
    /\ inst = NotBuilt /\ lock = 0
    /\ cls_file_path = NoPath /\ other = NoFile /\ inst2 = NotBuilt /\ ih = NoInstanceCall
    /\ th = [t \in Threads |-> Idle]
    /\ reminders = <<StoreReminder>> /\ now_hour = 0
    /\ last = NoCall /\ hist = NoHist
    /\ now_day = None /\ pc = "none" /\ idx = 0 /\ today = None
    /\ stop = FALSE /\ hb = "off" /\ ticks = 0 /\ dh = None
    /\ config = NoConfig /\ calendar = NotLoaded /\ query = NoQuery /\ pair = NoPair

othersS == <<reminders, now_hour, unitVars, daemonVars, calVars, instVars>>

\* ReminderSentStore(): the first instance loads the file into _data.
S_construct ==
    /\ inst = NotBuilt
    /\ LET l == load(file)
       IN  IF l.exc # "" THEN inst' = l /\ data' = data
           ELSE inst' = Ret(TRUE) /\ data' = l.val
    /\ UNCHANGED <<file, lock, th, othersS>>

\* A thread calls a method of the store and reaches `with _lock`.
T_call(t) ==
    /\ inst = Ret(TRUE) /\ th[t].pc = "idle" /\ th[t].n < MaxOps
    /\ \E c \in StoreCalls(t) :
          th' = [th EXCEPT ![t] = [pc |-> "wait", op |-> c.op, g |-> c.g, e |-> c.e,
                                   v |-> c.v, flag |-> FALSE, hit |-> FALSE,
                                   blocked |-> (lock # 0), exc |-> "", n |-> @.n + 1]]
    /\ UNCHANGED <<data, file, inst, lock, othersS>>

\* The thread enters the lock.
T_acquire(t) ==
    /\ th[t].pc = "wait" /\ lock_free(lock)
    /\ lock' = t
    /\ th' = [th EXCEPT ![t].pc = "check"]
    /\ UNCHANGED <<data, file, inst, othersS>>

\* The membership test: set, line 56 (guild_id not in _data); clear, line 63
\* (the entry is there).
T_check(t) ==
    /\ th[t].pc = "check"
    /\ LET r == th[t]
           present == store_get(data, r.g, r.e) # None
           flag == IF r.op = "set" THEN r.g \notin DOMAIN data ELSE present
           hit == r.op \in {"clear", "reminder_clear"} /\ present
       IN  th' = [th EXCEPT ![t].flag = flag, ![t].hit = hit,
                            ![t].pc = IF r.op \in {"set", "clear_all"} \/ hit
                                      THEN "put" ELSE "unlock"]
    /\ UNCHANGED <<data, file, inst, lock, othersS>>

\* The assignment or deletion in _data.  A key that went away since the
\* test (which the lock excludes) is a KeyError.
T_put(t) ==
    /\ th[t].pc = "put"
    /\ LET r == th[t]
           d0 == IF r.flag THEN DictPut(data, r.g, EmptyDict) ELSE data
           gone == IF r.op = "set" THEN r.g \notin DOMAIN d0
                   ELSE IF r.op = "clear_all" THEN FALSE
                   ELSE store_get(data, r.g, r.e) = None
           d1 == IF r.op = "set" THEN DictPut(d0, r.g, DictPut(d0[r.g], r.e, r.v))
                 ELSE IF r.op = "clear_all" THEN EmptyDict
                 ELSE IF r.op = "clear" THEN store_clear(Store, r.g, r.e).data
                 ELSE cr_clear(StoreReminder, Store).data
       IN  IF gone
           THEN /\ data' = data
                /\ th' = [th EXCEPT ![t].exc = "KeyError", ![t].pc = "unlock"]
           ELSE /\ data' = d1
                /\ th' = [th EXCEPT ![t].pc = IF needs_save(r.op, r.hit)
                                               THEN "open" ELSE "unlock"]
    /\ UNCHANGED <<file, inst, lock, othersS>>

\* _save, line 47: open(path, 'w') truncates the file.
T_open(t) ==
    /\ th[t].pc = "open"
    /\ file' = [kind |-> "corrupt", d |-> EmptyDict]
    /\ th' = [th EXCEPT ![t].pc = "dump"]
    /\ UNCHANGED <<data, inst, lock, othersS>>

\* _save, line 48: json.dump(_data, f) and the file is closed.
T_dump(t) ==
    /\ th[t].pc = "dump"
    /\ file' = store_save(data)
    /\ th' = [th EXCEPT ![t].pc = "unlock"]
    /\ UNCHANGED <<data, inst, lock, othersS>>

\* The `with` block is left and the method returns.
T_release(t) ==
    /\ th[t].pc = "unlock"
    /\ lock' = IF lock = t THEN 0 ELSE lock
    /\ th' = [th EXCEPT ![t].pc = "idle"]
    /\ UNCHANGED <<data, file, inst, othersS>>

StoreNext ==
    \/ S_construct
    \/ \E t \in Threads : T_call(t)
    \/ \E t \in Threads : T_acquire(t)
    \/ \E t \in Threads : T_check(t)
    \/ \E t \in Threads : T_put(t)
    \/ \E t \in Threads : T_open(t)
    \/ \E t \in Threads : T_dump(t)
    \/ \E t \in Threads : T_release(t)

StoreSpec == StoreInit /\ [][StoreNext]_vars

(***************************************************************************)
(* InstanceSpec: two ReminderSentStore instances of one process, built     *)
(* with different app_name and filename, and called one call at a time.    *)
(* _data and _file_path are attributes of the class.                       *)
(***************************************************************************)

Instances == {1, 2}

\* _get_appdata_file_path: the path the arguments of instance k name.
own_path(k) == IF k = 1 THEN "siege_reminders/reminders_sent.json"
               ELSE "test_siege_reminders/test_reminders_sent.json"

\* Faulty variant of file_path: each instance uses the path of its arguments.
file_path_own(cls_path, self_path) == self_path

\* The property file_path, lines 25-27: the attribute of the class.
file_path(cls_path, self_path) == cls_path

\* The file at path p.
FileAt(p) == IF p = own_path(1) THEN file ELSE other

\* What the construction of instance k returned.
Built(k) == IF k = 1 THEN inst ELSE inst2

\* ReminderSentStore._data is not None.
loaded == inst = Ret(TRUE) \/ inst2 = Ret(TRUE)

InstanceKeys == {<<Guild, "hydra">>, <<OtherGuild, "chimera">>}

\* The ledger a file holds before the process starts, if it holds one.
LedgerOf(k) ==
    IF k = 1 THEN store_set([data |-> EmptyDict, file |-> NoFile],
                            Guild, "hydra", StoreValue(1)).data
    ELSE store_set([data |-> EmptyDict, file |-> NoFile],
                   OtherGuild, "chimera", StoreValue(2)).data

InstanceInit ==
    /\ file \in {NoFile, store_save(LedgerOf(1))}
    /\ other \in {NoFile, store_save(LedgerOf(2))}
    /\ data = EmptyDict
    /\ inst = NotBuilt /\ inst2 = NotBuilt /\ cls_file_path = NoPath
    /\ ih = NoInstanceCall
    /\ lock = 0 /\ th = NoThreads
    /\ reminders = <<>> /\ now_hour = 0
    /\ last = NoCall /\ hist = NoHist
    /\ now_day = None /\ pc = "none" /\ idx = 0 /\ today = None
    /\ stop = FALSE /\ hb = "off" /\ ticks = 0 /\ dh = None
    /\ config = NoConfig /\ calendar = NotLoaded /\ query = NoQuery /\ pair = NoPair

othersI == <<lock, th, reminders, now_hour, unitVars, daemonVars, calVars>>

\* __init__, lines 17-23: _file_path is set when it is None, _data is loaded
\* when it is None.
I_construct(k) ==
    /\ Built(k) = NotBuilt
    /\ LET p == IF cls_file_path = NoPath THEN own_path(k) ELSE cls_file_path
           l == IF loaded THEN Ret(data) ELSE load(FileAt(file_path(p, own_path(k))))
           b == IF l.exc = "" THEN Ret(TRUE) ELSE l
       IN  /\ cls_file_path' = p
           /\ data' = IF l.exc = "" THEN l.val ELSE data
           /\ IF k = 1 THEN inst' = b /\ inst2' = inst2
                       ELSE inst2' = b /\ inst' = inst
    /\ ih' = [ih EXCEPT !.first = IF @ = 0 THEN k ELSE @]
    /\ UNCHANGED <<file, other, othersI>>

\* The store after a method of instance k: the ledger of the class, and
\* the file at the instance's file_path.
Written(k, st) ==
    /\ data' = st.data
    /\ IF file_path(cls_file_path, own_path(k)) = own_path(1)
       THEN file' = st.file /\ other' = other
       ELSE other' = st.file /\ file' = file

StoreOf(k) == [data |-> data, file |-> FileAt(file_path(cls_file_path, own_path(k)))]

\* set(guild_id, reminder_type, value) through instance k.
I_set(k) ==
    /\ Built(k) = Ret(TRUE)
    /\ \E key \in InstanceKeys :
          /\ Written(k, store_set(StoreOf(k), key[1], key[2], StoreValue(k)))
          /\ ih' = [ih EXCEPT !.via = k, !.op = "set", !.g = key[1], !.e = key[2],
                              !.res = None, !.setvia = k, !.setg = key[1],
                              !.sete = key[2]]
    /\ UNCHANGED <<inst, inst2, cls_file_path, othersI>>

\* clear(guild_id, reminder_type) through instance k.
I_clear(k) ==
    /\ Built(k) = Ret(TRUE)
    /\ \E key \in InstanceKeys :
          /\ Written(k, store_clear(StoreOf(k), key[1], key[2]))
          /\ ih' = [ih EXCEPT !.via = k, !.op = "clear", !.g = key[1], !.e = key[2],
                              !.res = None]
    /\ UNCHANGED <<inst, inst2, cls_file_path, othersI>>

\* clear_all() through instance k.
I_clear_all(k) ==
    /\ Built(k) = Ret(TRUE)
    /\ Written(k, store_clear_all(StoreOf(k)))
    /\ ih' = [ih EXCEPT !.via = k, !.op = "clear_all", !.g = "", !.e = "",
                        !.res = None]
    /\ UNCHANGED <<inst, inst2, cls_file_path, othersI>>

\* get(guild_id, reminder_type) through instance k.
I_get(k) ==
    /\ Built(k) = Ret(TRUE)
    /\ \E key \in InstanceKeys :
          ih' = [ih EXCEPT !.via = k, !.op = "get", !.g = key[1], !.e = key[2],
                           !.res = store_get(data, key[1], key[2])]
    /\ UNCHANGED <<data, file, other, inst, inst2, cls_file_path, othersI>>

InstanceNext ==
    \/ \E k \in Instances : I_construct(k)
    \/ \E k \in Instances : I_set(k)
    \/ \E k \in Instances : I_clear(k)
    \/ \E k \in Instances : I_clear_all(k)
    \/ \E k \in Instances : I_get(k)

InstanceSpec == InstanceInit /\ [][InstanceNext]_vars

(***************************************************************************)
(* Properties of the Reminder objects (UnitSpec)                           *)
(***************************************************************************)

\* C2: after send(day) has succeeded for (guild, event) and while the entry
\* has not been cleared, should_send(day) never returns True, whatever the
\* weekday, the hour and the calendar: it returns False whenever the calendar
\* gives an answer (an ill-configured calendar makes it raise instead), the
\* ledger still holds str(day), and the send made exactly one delivery call.
C2_Idempotent ==
    (last.op = "should_send" /\ hist.sent = str(last.day)) =>
        /\ store_get(data, R.guild_id, R.event) = str(last.day)
        /\ last.res # Ret(TRUE)
        /\ (R.cls = "reminder"
              /\ is_event_week(R.calendar, R.event, last.day).exc # ""
            => last.res = Raise("ValueError"))
        /\ (R.cls = "reminder"
            => (is_event_week(R.calendar, R.event, last.day).exc = ""
                => last.res = Ret(FALSE)))
        /\ (R.cls = "clan_reminders" => last.res = Ret(FALSE))
        /\ (~hist.resent => hist.calls = 1)

\* C2 happens: a send succeeded, and should_send for the same day, on a
\* scheduled weekday of an active week past the gate hour, returned False.
C2_Witness ==
    /\ last.op = "should_send" /\ hist.sent = str(last.day)
    /\ R.cls = "reminder" /\ R.utc_time = {7} /\ now_hour >= 7
    /\ is_event_week(R.calendar, R.event, last.day) = Ret(TRUE)
    /\ \E i \in 1 .. Len(R.reminder_days) : R.reminder_days[i] = weekday(last.day)
    /\ last.res = Ret(FALSE) /\ hist.calls = 1

\* C6: should_send(day) of clan/reminder.py returns True exactly when the
\* four gates hold (calendar active in day's week, ledger entry # str(day),
\* weekday among the reminder days, clock hour >= gate hour when a gate is
\* set), and False otherwise whenever the calendar gives an answer; with
\* days [1,2] it is not True on another weekday, and with utc_hour 7 and the
\* other gates passing it is False for hours 0..6 and True for hours 7..23.
C6_ShouldSendGates ==
    (last.op = "should_send" /\ R.cls = "reminder") =>
        LET active == is_event_week(R.calendar, R.event, last.day)
            unsent == last.prev # str(last.day)
            onday == \E i \in 1 .. Len(R.reminder_days) :
                        R.reminder_days[i] = weekday(last.day)
            onhour == \A h \in R.utc_time : now_hour >= h
        IN  /\ (last.res = Ret(TRUE)) <=>
                   (active = Ret(TRUE) /\ unsent /\ onday /\ onhour)
            /\ (active.exc = "" => last.res \in {Ret(TRUE), Ret(FALSE)})
            /\ (R.reminder_days = <<1, 2>> /\ weekday(last.day) \notin {1, 2}
                => last.res # Ret(TRUE))
            /\ (R.utc_time = {7} /\ active = Ret(TRUE) /\ unsent /\ onday
                => /\ (now_hour \in 0 .. 6 => last.res = Ret(FALSE))
                   /\ (now_hour \in 7 .. 23 => last.res = Ret(TRUE)))

\* C6 happens: with utc_hour 7, should_send returned True at hour 7 exactly.
C6_Witness ==
    /\ last.op = "should_send" /\ R.cls = "reminder"
    /\ R.utc_time = {7} /\ now_hour = 7 /\ R.reminder_days = <<1, 2>>
    /\ last.res = Ret(TRUE)

\* C8: a successful send(day) has called the delivery capability exactly once,
\* with the reminder's channel, and the ledger entry of (guild, event) is
\* str(day) afterwards, in memory and in the file.
C8_SendDeliversAndRecords ==
    (last.op = "send" /\ last.res.exc = "") =>
        /\ last.delivered = <<R.channel>>
        /\ store_get(data, R.guild_id, R.event) = str(last.day)
        /\ file.kind = "json"
        /\ store_get(file.d, R.guild_id, R.event) = str(last.day)

\* C8 happens: a send succeeded on an entry that was absent before the call.
C8_Witness ==
    /\ last.op = "send" /\ last.res.exc = "" /\ last.prev = None
    /\ last.delivered = <<"announcements">>
    /\ store_get(data, R.guild_id, R.event) = str(last.day)

\* C10: the ledger changes only through a successful delivery (the entry of
\* the reminder set to str(day)) or an explicit clear / clear_all (or a direct
\* store call): a send whose delivery raises returns the exception to its
\* caller and leaves ledger and file as they were, and should_send and
\* reminder_number leave them as they were.
C10_LedgerWrittenOnlyBySuccess ==
    [][ /\ (last'.op \in {"should_send", "reminder_number"}
            => data' = data /\ file' = file)
        /\ (last'.op = "send" /\ last'.res.exc # ""
            => /\ data' = data /\ file' = file
               /\ (last'.delivered # <<>> => last'.res = Raise("DeliveryException")))
        /\ (store_get(data', R.guild_id, R.event) # store_get(data, R.guild_id, R.event)
            => \/ /\ last'.op = "send" /\ last'.res.exc = ""
                  /\ store_get(data', R.guild_id, R.event) = str(last'.day)
               \/ /\ last'.op \in {"clear", "clear_all"}
                  /\ store_get(data', R.guild_id, R.event) = None)
        /\ (store_get(data', OtherGuild, R.event) # store_get(data, OtherGuild, R.event)
            => last'.op \in {"store_set", "store_clear", "clear_all"})
      ]_vars

\* C10 happens: a send whose delivery raised, on a ledger that holds an entry.
C10_Witness ==
    /\ last.op = "send" /\ last.res = Raise("DeliveryException")
    /\ last.prev # None /\ last.prev # str(last.day)
    /\ store_get(data, R.guild_id, R.event) = last.prev

(***************************************************************************)
(* Properties of the daemon (Spec)                                         *)
(***************************************************************************)

\* Where on_clock is once it has left its while loop.
Left == {"finally", "drain", "stopped"}

\* C1: over the ticks of one calendar day, Sunday included, with no restart
\* and every delivery call succeeding, the delivery capability of each
\* reminder is invoked at most once for that day.
C1_AtMostOncePerDay ==
    (dh.crashes = 0 /\ ~dh.failed) => \A i \in RIdx : dh.calls[i] <= 1

\* C3: after a crash that follows a returned send(day) and a restart, the
\* ledger read from the file still holds str(day) for the reminder, and the
\* reminder is not delivered again on that day.
C3_RestartKeepsSentDay ==
    \A i \in RIdx :
        (pc # "down" /\ i \in dh.restarted /\ dh.okday[i] = str(now_day)
            /\ today = now_day)
        => /\ i \notin dh.redelivered
           /\ (pc = "test" =>
                  store_get(data, reminders[i].guild_id, reminders[i].event)
                      = dh.okday[i])

\* C4: in one tick, an exception raised by the send of one reminder never
\* keeps the reminders registered after it from being evaluated in that tick.
C4_FailureIsolation ==
    (pc = "sleep" /\ dh.raised # 0)
    => \A j \in RIdx : j > dh.raised => j \in dh.evald

\* C5 (as stated): on_clock leaves its loop only after stop_event has been set.
C5_LeavesOnlyAfterSignal == pc \in Left => stop

\* C5 (amended): on_clock leaves its loop only when stop_event has been set or
\* the task running it has been cancelled; an exception raised by the
\* callback is caught and the loop goes on to its sleep.
C5_LeavesOnSignalOrCancel ==
    [][/\ (pc \notin Left /\ pc' \in Left) => (stop \/ dh'.exit = "cancel")
       /\ (pc \in {"eval", "deliver"} /\ dh'.raised # 0) => pc' = "sleep"]_vars

\* A tick starts after a tick in which a delivery call raised.
C5_Witness ==
    /\ dh.failed /\ dh.crashes = 0 /\ ~stop
    /\ pc = "eval" /\ ticks >= 2

\* C7: a reminder whose event is biweekly and not active in the current week
\* is never delivered by the loop.
C7_InactiveWeekNotDelivered ==
    pc = "deliver"
    => is_event_week(DaemonCalendar, EVENT_NAME_MAP[reminders[idx].event], today)
           # Ret(FALSE)

\* C9: when send fails on a reminder that has no send_func, the other
\* reminders of the same tick are still evaluated.
C9_UnboundFatalForDefinitionOnly ==
    (pc = "sleep" /\ dh.raised # 0 /\ reminders[dh.raised].send_func = "none")
    => \A j \in RIdx : j \in dh.evald

\* C11: reminder_number(day) is the 1-based position of day.weekday() in
\* reminder_days, the first one when the weekday occurs more than once, and
\* -1 when the weekday is not in the list; for days [0,3] it is 1 on Monday,
\* 2 on Thursday and -1 on Tuesday.
C11_ReminderNumber ==
    (last.op = "reminder_number") =>
        LET n == last.res.val
            wd == weekday(last.day)
            days == R.reminder_days
            listed == \E i \in 1 .. Len(days) : days[i] = wd
        IN  /\ last.res.exc = ""
            /\ listed => /\ n \in 1 .. Len(days)
                         /\ days[n] = wd
                         /\ \A j \in 1 .. (n - 1) : days[j] # wd
            /\ ~listed => n = -1
            /\ days = <<0, 3>> =>
                  /\ (wd = 0 => n = 1)
                  /\ (wd = 3 => n = 2)
                  /\ (wd = 1 => n = -1)

\* C11 happens: with days [3,0,3], reminder_number on a Thursday returned 1.
C11_Witness ==
    /\ last.op = "reminder_number" /\ R.reminder_days = <<3, 0, 3>>
    /\ weekday(last.day) = 3 /\ last.res = Ret(1)

\* The Friday and the Saturday of the week of day.
FridayOf(day) == [day EXCEPT !.wd = 4]

SaturdayOf(day) == [day EXCEPT !.wd = 5]

\* C12: for the reminder with days [4,5] and utc_hour 10, at 11:00 UTC:
\* should_send on Friday is True while Friday is not recorded, with
\* reminder_number 1; once a send on Friday has succeeded, should_send on
\* that Friday is False; and should_send on the Saturday is True although
\* Friday is recorded, with reminder_number 2.
C12_StagesDoNotSuppressEachOther ==
    (/\ last.op = "should_send" /\ R.cls = "reminder"
     /\ R.reminder_days = <<4, 5>> /\ R.utc_time = {10} /\ now_hour = 11) =>
        LET fri == FridayOf(last.day)
            sat == SaturdayOf(last.day)
        IN  /\ (last.day = fri /\ last.prev # str(fri)) =>
                  (last.res = Ret(TRUE) /\ reminder_number(R, fri) = 1)
            /\ (last.day = fri /\ hist.sent = str(fri)) =>
                  (last.prev = str(fri) /\ last.res = Ret(FALSE))
            /\ (last.day = sat /\ hist.sent = str(fri)) =>
                  (last.prev = str(fri) /\ last.res = Ret(TRUE)
                     /\ reminder_number(R, sat) = 2)

\* C12 happens: Friday's send succeeded and should_send on the Saturday of the
\* same week, at 11:00 UTC, returned True.
C12_Witness ==
    /\ last.op = "should_send" /\ R.cls = "reminder"
    /\ R.reminder_days = <<4, 5>> /\ R.utc_time = {10} /\ now_hour = 11
    /\ last.day = SaturdayOf(last.day) /\ hist.sent = str(FridayOf(last.day))
    /\ last.res = Ret(TRUE)

\* C21: a signal that arrives during a tick does not cut the tick short: with
\* stop_event set, the tick still evaluates every reminder (only an exception
\* or a task cancellation ends it early); the loop is left from its sleep,
\* the heartbeat task is cancelled and awaited, and the scheduler is never
\* stopped while the heartbeat task is still running.
C21_StopsAfterTickAndHeartbeat ==
    [][/\ (stop /\ pc \in {"eval", "deliver"} /\ pc' \in Left) => dh'.exit = "cancel"
       /\ (stop /\ pc \in {"eval", "deliver"} /\ pc' = "sleep" /\ dh'.raised = 0)
            => dh'.evald = RIdx
       /\ (pc # "stopped" /\ pc' = "stopped") => pc \in {"finally", "drain"}
       /\ pc' = "stopped" => hb' \in {"off", "done", "cancelled"}]_vars

\* The signal came during a tick, the tick evaluated every reminder, the
\* heartbeat task was cancelled in a post and awaited, and on_clock returned.
C21_Witness ==
    /\ pc = "stopped" /\ dh.exit = "stop" /\ dh.sig \in {"eval", "deliver"}
    /\ dh.evald = RIdx /\ dh.raised = 0 /\ hb = "cancelled"

\* The ledger entry of reminder i in the ledger d.
EntryOf(d, i) == store_get(d, reminders[i].guild_id, reminders[i].event)

\* C20: a tick that starts on a Sunday clears every reminder before any
\* should_send of the tick, a tick on another weekday clears nothing, no
\* entry is removed later in a tick, the reminders are evaluated one at a
\* time in registration order, and send is entered only for the reminder
\* whose should_send has just returned True.
C20_TickOrder ==
    [][/\ (pc = "test" /\ pc' \in {"eval", "sleep"}) =>
             /\ dh'.evald = {}
             /\ weekday(today') = 6 => \A i \in RIdx : EntryOf(data', i) = None
             /\ weekday(today') # 6 => (data' = data /\ file' = file)
       /\ (pc \in {"eval", "deliver"} /\ pc' # "down") =>
             \A i \in RIdx : EntryOf(data, i) # None => EntryOf(data', i) # None
       /\ (pc = "eval" /\ pc' # "down" /\ <<pc', idx'>> # <<pc, idx>>) =>
             /\ dh.evald = 1 .. (idx - 1)
             /\ dh'.evald = 1 .. idx
       /\ ((pc # "deliver" /\ pc' = "deliver") \/ (dh.raised = 0 /\ dh'.raised # 0
                                                    /\ pc = "eval")) =>
             /\ pc = "eval" /\ idx' = idx
             /\ cr_should_send(reminders[idx], data, today, now_hour) = Ret(TRUE)]_vars

\* C20 happens: a Sunday tick has removed the entry written by an earlier
\* tick of that Sunday and is about to evaluate the first reminder.
C20_Witness ==
    /\ pc = "eval" /\ idx = 1 /\ dh.cleared /\ weekday(today) = 6
    /\ dh.crashes = 0
    /\ \E i \in RIdx : dh.okday[i] = str(today) /\ EntryOf(data, i) = None

\* C22: once stop_event is set, and with every started delivery call
\* returning, the main loop and the heartbeat task both come to their end and
\* on_clock is over with the heartbeat task awaited, without any timeout of a
\* wait having to run out; this wherever the signal finds the two tasks.
C22_StopLeadsToStopped ==
    stop ~> (pc = "stopped" /\ hb \in {"off", "done", "cancelled"})

\* The signal came while the main loop and the heartbeat task were both in
\* their sleep; both woke and on_clock returned.
C22_Witness ==
    /\ pc = "stopped" /\ dh.exit = "stop" /\ dh.sig = "sleep"
    /\ dh.sighb = "sleep" /\ hb = "done"

\* C23: an exception raised by a heartbeat post is caught inside the
\* heartbeat task: the step changes nothing of the main loop, the task goes
\* on to its wait and, with stop_event not set, posts again when the wait
\* times out; after the failure the task ends only by stop_event or by the
\* cancellation in on_clock's finally block, and the main loop's next tick
\* can start as before.
C23_HeartbeatFailureContained ==
    [][/\ (hb = "post" /\ dh'.hbfail = 1 /\ hb' # "cancelling")
            => /\ hb' = "sleep"
               /\ <<pc, idx, ticks, stop, today, data, file>>'
                      = <<pc, idx, ticks, stop, today, data, file>>
               /\ dh'.raised = dh.raised /\ dh'.exit = dh.exit
       /\ (dh'.hbfail > 0 /\ hb' = "sleep" /\ ~stop' /\ pc' \notin Left \cup {"down"})
            => (ENABLED HbSleepTimeout)'
       /\ (dh.hbfail > 0 /\ hb' # hb /\ pc' # "down")
            => \/ hb' \in {"post", "sleep"}
               \/ hb' = "done" /\ stop
               \/ hb' = "cancelling" /\ pc = "finally"
               \/ hb' = "cancelled" /\ hb = "cancelling"
       /\ (dh'.hbfail > 0 /\ pc' = "test" /\ ~stop' /\ ticks' < MaxTicks)
            => (ENABLED TickStart)'
       /\ (dh'.hbfail > 0 /\ pc' = "sleep" /\ ~stop' /\ HourLater'.day \in Dates)
            => (ENABLED SleepTimeout)']_vars

\* After a heartbeat post raised, the heartbeat task has posted again and
\* the main loop has started its next tick.
C23_Witness ==
    /\ dh.hbfail = 2 /\ dh.hbtick /\ hb = "post" /\ ~stop
    /\ pc = "eval" /\ ticks >= 2 /\ dh.crashes = 0

\* C24: once stop_event is set no new tick starts: the count of started ticks
\* stays as it is (none if the signal came before the first loop test, the
\* tick in progress and no other if it came during a tick), and from its
\* sleep or its loop test the loop goes nowhere but to its finally block.
C24_NoTickAfterSignal ==
    [][/\ stop => ticks' = ticks
       /\ (stop /\ pc \in {"sleep", "test"} /\ pc' \notin {pc, "down"})
            => pc' = "finally"
       /\ (stop /\ ~stop' /\ pc' # "down") => FALSE]_vars

\* The signal came during the sleep after the first tick; on_clock returned
\* and no second tick was started.
C24_Witness ==
    /\ pc = "stopped" /\ dh.exit = "stop" /\ dh.sig = "sleep" /\ ticks = 1
    /\ dh.crashes = 0

\* C25: a cancellation of the task while the callback awaits a delivery is
\* not swallowed: the loop is left for the finally block with the ledger
\* untouched, no tick starts afterwards, the heartbeat task is cancelled and
\* awaited before on_clock is over, and CancelledError is still the way
\* on_clock ends (it is raised to the caller).
C25_CancellationPropagates ==
    [][/\ (pc = "deliver" /\ dh.exit # "cancel" /\ dh'.exit = "cancel")
            => pc' = "finally" /\ data' = data /\ file' = file
       /\ (dh.exit = "cancel" /\ pc' # "down")
            => pc' \in Left /\ dh'.exit = "cancel" /\ ticks' = ticks
       /\ (dh'.exit = "cancel" /\ pc' = "stopped")
            => /\ hb' \in {"off", "done", "cancelled"}
               /\ pc \in {"finally", "drain", "stopped"}]_vars

\* The task was cancelled during the delivery call of a reminder, with no
\* signal; the heartbeat task was cancelled and awaited and on_clock ended
\* with CancelledError.
C25_Witness ==
    /\ pc = "stopped" /\ dh.exit = "cancel" /\ ~stop
    /\ idx \in RIdx /\ dh.raised = 0 /\ hb = "cancelled" /\ dh.crashes = 0

\* C26: a reminder whose delivery raised today and has not succeeded since
\* is attempted again in every later tick of that day (at the end of a tick
\* it is the reminder whose send raised in the tick, or it has been
\* delivered), and a delivery is attempted on the reminder's weekday only.
C26_FailedDeliveryRetriedNextTick ==
    /\ (pc = "sleep" /\ dh.crashes = 0 /\ today = now_day)
        => \A i \in RIdx :
              (/\ dh.calls[i] >= 1
               /\ dh.okday[i] # str(today)
               /\ weekday(today) = reminders[i].reminder_day)
              => dh.raised = i
    /\ pc = "deliver" => weekday(today) = reminders[idx].reminder_day

\* C27: in a run without crash in which every reminder has its send_func
\* and no delivery call raises, at the end of every tick on the weekday of a
\* reminder, with the UTC hour at or past its gate (any hour when it has no
\* gate), the reminder has been delivered for that day and the ledger says
\* so: with one tick per hour the delivery is made at the first tick at or
\* past the gate.
C27_DeliveredAtFirstTickPastGate ==
    (/\ pc = "sleep" /\ today = now_day
     /\ dh.crashes = 0 /\ ~dh.failed
     /\ \A j \in RIdx : reminders[j].send_func # "none")
    => \A i \in RIdx :
          (/\ weekday(today) = reminders[i].reminder_day
           /\ \A h \in reminders[i].utc_time : now_hour >= h)
          => /\ dh.okday[i] = str(today)
             /\ EntryOf(data, i) = str(today)

\* The daemon started at 06:00 on the weekday of the reminder gated at
\* 07:00: the tick of 06:00 held it back and the tick of 07:00 delivered it.
C27_Witness ==
    /\ pc = "sleep" /\ today = now_day /\ now_hour = 7 /\ ticks = 2
    /\ dh.crashes = 0 /\ ~dh.failed
    /\ \A j \in RIdx : reminders[j].send_func # "none"
    /\ reminders[1].utc_time = {7} /\ weekday(today) = reminders[1].reminder_day
    /\ dh.calls[1] = 1 /\ dh.okday[1] = str(today)

\* C29: once a run of send_reminders_once has delivered a reminder and
\* recorded today's date for it, the running daemon makes no further
\* delivery call for that reminder on that day, and (Sunday's clearing
\* apart) the file keeps the entry whatever the daemon writes later.
C29_DaemonHonoursSendNow ==
    (dh.sendnow = str(now_day) /\ today = now_day)
    => \A i \in dh.sentnow :
          /\ dh.calls[i] = dh.callsat[i]
          /\ weekday(now_day) # 6
                => file.kind = "json" /\ EntryOf(file.d, i) = str(now_day)

(***************************************************************************)
(* Properties of the Calendar (CalendarSpec)                               *)
(***************************************************************************)

\* The frequency and the start week a calendar registers for an event.
Frequency(cal, event) ==
    IF event \in DOMAIN cal.event_frequencies THEN {cal.event_frequencies[event]} ELSE {}

StartWeek(cal, event) ==
    IF event \in DOMAIN cal.start_weeks THEN {cal.start_weeks[event]} ELSE {}

\* C13: is_event_week(e, d) is True for every date when e is weekly; when e
\* is biweekly with start week w it is True exactly when isoweek(d) and w
\* differ by an even number of weeks, also when w is greater than isoweek(d);
\* so it alternates over two consecutive weeks.
C13_IsEventWeek ==
    (query.event # "") =>
        LET f == Frequency(calendar.res.val, query.event)
            sw == StartWeek(calendar.res.val, query.event)
        IN  /\ f = {"weekly"} => query.res = Ret(TRUE)
            /\ \A w \in sw :
                  f = {"biweekly"} =>
                     /\ query.res.exc = ""
                     /\ query.res.val <=>
                           \E k \in -NumWeeks - 5 .. NumWeeks + 5 :
                               isoweek(query.day) - w = 2 * k
                     /\ (w = FirstWeek /\ isoweek(query.day) = FirstWeek
                           => query.res = Ret(TRUE))
                     /\ (w = FirstWeek /\ isoweek(query.day) = FirstWeek + 1
                           => query.res = Ret(FALSE))

\* C13 happens: a biweekly event whose start week lies four weeks after the
\* date's week was reported active.
C13_Witness ==
    /\ query.event = "SIEGE"
    /\ Frequency(calendar.res.val, "SIEGE") = {"biweekly"}
    /\ StartWeek(calendar.res.val, "SIEGE") = {FirstWeek + 5}
    /\ isoweek(query.day) = FirstWeek + 1
    /\ query.res = Ret(TRUE)

\* C14: is_event_week fails, and returns no boolean, when the event has no
\* registered frequency, when its frequency is neither weekly nor biweekly,
\* or when it is biweekly without a start week.
C14_IllConfiguredRaises ==
    (query.event # "") =>
        LET f == Frequency(calendar.res.val, query.event)
            sw == StartWeek(calendar.res.val, query.event)
        IN  (\/ f = {}
             \/ f \notin {{}, {"weekly"}, {"biweekly"}}
             \/ (f = {"biweekly"} /\ sw = {}))
            => query.res.exc # ""

\* C15: a Calendar that Calendar.from_config returned has, for every event,
\* a frequency that is weekly or biweekly, and a start week when biweekly.
C15_LoadRejectsIllConfigured ==
    (calendar.via = "from_config" /\ calendar.res.exc = "") =>
        \A e \in DOMAIN calendar.res.val.event_frequencies :
            LET f == calendar.res.val.event_frequencies[e]
            IN  /\ f \in {"weekly", "biweekly"}
                /\ f = "biweekly" => e \in DOMAIN calendar.res.val.start_weeks

\* C28: for a biweekly event with a start week, is_event_week gives
\* opposite results for a date and the date a week later when both lie in
\* the same ISO year, and when the first lies in week 52 and the second in
\* week 1 of the next ISO year; when the first lies in week 53 and the second
\* in week 1 of the next ISO year, it gives the same result for both.
C28_YearBoundaryParity ==
    (/\ pair.event # ""
     /\ Frequency(calendar.res.val, pair.event) = {"biweekly"}
     /\ StartWeek(calendar.res.val, pair.event) # {})
    => /\ pair.first.exc = "" /\ pair.second.exc = ""
       /\ (week_later(pair.day).y = pair.day.y \/ isoweek(pair.day) = 52)
            => pair.first.val # pair.second.val
       /\ (week_later(pair.day).y # pair.day.y /\ isoweek(pair.day) = 53)
            => pair.first.val = pair.second.val

\* A biweekly event was reported active in week 53 and again in week 1 of
\* the next ISO year.
C28_Witness ==
    /\ pair.event # ""
    /\ Frequency(calendar.res.val, pair.event) = {"biweekly"}
    /\ isoweek(pair.day) = 53 /\ isoweek(week_later(pair.day)) = 1
    /\ pair.first = Ret(TRUE) /\ pair.second = Ret(TRUE)

\* A biweekly event was reported active in week 52 and inactive in week 1 of
\* the next ISO year.
C28_WitnessShortYear ==
    /\ pair.event # ""
    /\ Frequency(calendar.res.val, pair.event) = {"biweekly"}
    /\ isoweek(pair.day) = 52 /\ isoweek(week_later(pair.day)) = 1
    /\ pair.first = Ret(TRUE) /\ pair.second = Ret(FALSE)

(***************************************************************************)
(* Properties of the ReminderSentStore (StoreSpec)                         *)
(***************************************************************************)

\* No thread is inside a method of the store.
Quiet == \A t \in Threads : th[t].pc \in {"idle", "wait"}

\* Thread t's last call has returned and it changed the ledger.
Mutated(t) ==
    /\ th[t].pc = "idle" /\ th[t].exc = ""
    /\ (th[t].op \in {"set", "clear_all"} \/ th[t].hit)

\* C16: whenever no mutation is in progress, what the backing file would
\* load is the in-memory ledger, and once a set, clear or clear_all that
\* changed the ledger has returned, the file is the JSON text of the ledger.
C16_PersistedBeforeReturn ==
    (inst = Ret(TRUE) /\ Quiet) =>
        /\ store_load(file) = data
        /\ (\E t \in Threads : Mutated(t)) => (file.kind = "json" /\ file.d = data)

\* C16 happens: a clear that removed an entry has returned while another
\* entry is left, and the file holds exactly what is left.
C16_Witness ==
    /\ Quiet
    /\ \E t \in Threads : th[t].pc = "idle" /\ th[t].op = "clear" /\ th[t].hit
    /\ data # EmptyDict /\ file.kind = "json" /\ file.d = data

\* C17: when the two threads have each made one call, a set, on different
\* keys, and both calls have returned, both entries are in memory and in the
\* file with their values, whatever the interleaving was.
C17_ConcurrentSetsBothKept ==
    (/\ \A t \in Threads : th[t].pc = "idle" /\ th[t].n = 1 /\ th[t].op = "set"
     /\ <<th[1].g, th[1].e>> # <<th[2].g, th[2].e>>) =>
        \A t \in Threads :
            /\ th[t].exc = ""
            /\ store_get(data, th[t].g, th[t].e) = th[t].v
            /\ file.kind = "json"
            /\ store_get(file.d, th[t].g, th[t].e) = th[t].v

\* C17 happens: thread 2 called set while thread 1 held the lock for its set
\* on another event of the same guild, and both have returned.
C17_Witness ==
    /\ \A t \in Threads : th[t].pc = "idle" /\ th[t].n = 1 /\ th[t].op = "set"
    /\ th[1].g = th[2].g /\ th[1].e # th[2].e
    /\ th[2].blocked
    /\ store_get(data, th[1].g, th[1].e) = th[1].v
    /\ store_get(data, th[2].g, th[2].e) = th[2].v

\* C18: the step of clear(g, e) that changes the ledger leaves get(g, e) None
\* and every other entry as it was; that of clear_all() leaves get None for
\* every key; Reminder.clear() does what clear does for the reminder's guild
\* and event; and get(g, e) is None when a clear(g, e) returns.
C18_ClearRoundTrip ==
    [][\A t \in Threads :
          LET r == th[t]
              cleared == IF r.op = "reminder_clear"
                         THEN <<StoreReminder.guild_id, StoreReminder.event>>
                         ELSE <<r.g, r.e>>
          IN  /\ (r.pc = "put" /\ th'[t].pc # "put"
                    /\ r.op \in {"clear", "reminder_clear"}) =>
                     /\ store_get(data, cleared[1], cleared[2]) # None
                     /\ store_get(data', cleared[1], cleared[2]) = None
                     /\ \A k \in StoreKeys \ {cleared} :
                           store_get(data', k[1], k[2]) = store_get(data, k[1], k[2])
              /\ (r.pc = "put" /\ th'[t].pc # "put" /\ r.op = "clear_all") =>
                     \A k \in StoreKeys : store_get(data', k[1], k[2]) = None
              /\ (r.pc = "unlock" /\ th'[t].pc = "idle"
                    /\ r.op \in {"clear", "reminder_clear"}) =>
                     store_get(data, cleared[1], cleared[2]) = None]_vars

\* C18 happens: a clear of an entry that had been set has returned, while
\* another event of the same guild is still recorded.
C18_Witness ==
    \E t \in Threads :
        /\ th[t].pc = "idle" /\ th[t].op = "clear" /\ th[t].hit
        /\ store_get(data, th[t].g, th[t].e) = None
        /\ \E k \in StoreKeys :
              k[1] = th[t].g /\ k[2] # th[t].e /\ store_get(data, k[1], k[2]) # None

\* C19: with a backing file that is corrupted or cannot be read,
\* ReminderSentStore() does not fail and starts from an empty ledger, and the
\* first set leaves a well-formed file.
C19_BadFileStartsEmpty ==
    /\ inst # NotBuilt => inst = Ret(TRUE)
    /\ (inst = Ret(TRUE) /\ \A t \in Threads : th[t].n = 0) => data = EmptyDict
    /\ \A t \in Threads :
          (Mutated(t) /\ th[t].op = "set" /\ Quiet) => file = store_save(data)
(***************************************************************************)
(* Properties of the instances of ReminderSentStore (InstanceSpec)         *)
(***************************************************************************)

\* C30: the instances of one process share one ledger and one file, those of
\* the first instance built: _file_path is the path the first instance's
\* arguments name and never changes; building the later instance loads
\* nothing; a get through either instance returns what the shared ledger
\* holds, whichever instance wrote it; a set through either instance updates
\* the shared ledger and writes it to the first instance's file; and the
\* file named by the later instance's arguments is never written.
C30_InstancesShareLedgerAndFile ==
    [][/\ cls_file_path' = own_path(ih'.first)
       /\ cls_file_path # NoPath => cls_file_path' = cls_file_path
       /\ (loaded /\ <<inst, inst2>>' # <<inst, inst2>>) => data' = data
       /\ (ih'.first = 1 => other' = other) /\ (ih'.first = 2 => file' = file)
       /\ (ih' # ih /\ ih'.op = "get")
            => ih'.res = store_get(data, ih'.g, ih'.e)
       /\ (ih' # ih /\ ih'.op = "set")
            => /\ store_get(data', ih'.g, ih'.e) = StoreValue(ih'.via)
               /\ ih'.first = 1 => file' = store_save(data')
               /\ ih'.first = 2 => other' = store_save(data')]_vars

\* The later instance, built with other names while its own file held a
\* ledger, set an entry; a get through the first instance returned it; the
\* first instance's file holds it and the later instance's file is as it was.
C30_Witness ==
    /\ inst = Ret(TRUE) /\ inst2 = Ret(TRUE) /\ ih.first = 1
    /\ ih.op = "get" /\ ih.via = 1
    /\ ih.setvia = 2 /\ ih.setg = ih.g /\ ih.sete = ih.e
    /\ ih.res = StoreValue(2)
    /\ file = store_save(data) /\ store_get(file.d, ih.g, ih.e) = StoreValue(2)
    /\ other = store_save(LedgerOf(2)) /\ other # file

====
